---- MODULE Spec2Model ----
(***************************************************************************)
(* A model of metricsmonitoring.py: the dedup store (alert_log.json), the  *)
(* per-site detectors of monitor_sites, the table parser, and runs of      *)
(* monitor_sites, one at a time (Spec) and overlapping (SpecRace).         *)
(***************************************************************************)
EXTENDS Integers, Sequences, FiniteSets, TLC

VARIABLES
    alert_log_file,   \* alert_log.json: [exists, data], data a key -> TRUE map
    pc,               \* "idle" between runs, "running" inside the site loop
    runs,             \* runs of monitor_sites started so far
    threshold_percent,\* the threshold load_config returned for this run
    queue,            \* rows of sites_df the loop has not reached yet
    listing,          \* the rows of sites_df of this run (history)
    visited,          \* sites whose loop iteration started in this run (history)
    outcome,          \* how the last run ended: "none", "finished", "error"
    errorMsgs,        \* error messages handed to Slack by the handler, this run
    sent,             \* <<site, type, date>> -> dispatch attempts, all runs
    last,             \* what the last loop iteration did (history)
    today,            \* days passed since the first run (the metrics' latest day)
    dedupCalls,       \* SpecStore: the last call on the dedup store and its history
    baselineCalc,     \* SpecBaseline: a frame and the baseline computed from it
    parseCall,        \* SpecParse: a metrics text and what parse_table_to_df made of it
    proc,             \* SpecRace: the two runs, each with its position and locals
    raceHist          \* SpecRace: what the two runs did so far (history)

vars == <<alert_log_file, pc, runs, threshold_percent, queue, listing,
          visited, outcome, errorMsgs, sent, last, today,
          dedupCalls, baselineCalc, parseCall, proc, raceHist>>

runVars == <<pc, runs, threshold_percent, queue, listing, visited, outcome,
             errorMsgs, last, today>>

----------------------------------------------------------------------------
(* Bounds of the model.                                                    *)

MaxRuns == 2
MaxCalls == 3
MaxRows == 7
MaxDataLines == 2

(* Constants of the program.                                               *)

MinRows == 4
WindowBack == 6
MinWindow == 3
error_threshold_4xx == 100
error_threshold_5xx == 10
CacheThreshold == 50
DefaultThreshold == 25

----------------------------------------------------------------------------
(* Strings the program builds.                                             *)

Digits == <<"0", "1", "2", "3", "4", "5", "6", "7", "8", "9">>

\* recent["Period"].strftime('%Y-%m-%d') for a day of January 2024
strftime(day) ==
    "2024-01-" \o Digits[(day \div 10) + 1] \o Digits[(day % 10) + 1]

\* key = f"{site_name}:{alert_type}:{date_str}"
AlertKeyNoType(site_name, alert_type, date_str) ==
    site_name \o ":" \o date_str

AlertKey(site_name, alert_type, date_str) ==
    site_name \o ":" \o alert_type \o ":" \o date_str

----------------------------------------------------------------------------
(* The dedup store.                                                        *)

EmptyLog == [k \in {} |-> TRUE]

MissingFile == [exists |-> FALSE, data |-> EmptyLog]

load_alert_log(file) ==
    IF file.exists THEN file.data ELSE EmptyLog

save_alert_log(log) ==
    [exists |-> TRUE, data |-> log]

\* log.get(key, False) on the document read from the file
already_alerted(file, site_name, alert_type, date_str) ==
    LET log == load_alert_log(file)
        key == AlertKey(site_name, alert_type, date_str)
    IN  IF key \in DOMAIN log THEN log[key] ELSE FALSE

\* log[key] = True on a document already loaded
SetKeyDropOthers(log, key) ==
    [k \in {key} |-> TRUE]

SetKey(log, key) ==
    [k \in (DOMAIN log) \cup {key} |-> IF k = key THEN TRUE ELSE log[k]]

\* the file mark_alerted leaves behind
mark_alerted(file, site_name, alert_type, date_str) ==
    save_alert_log(SetKey(load_alert_log(file),
                          AlertKey(site_name, alert_type, date_str)))

----------------------------------------------------------------------------
(* Data frames: what parse_table_to_df hands to monitor_sites.  A frame is *)
(* None or a table: its columns, its rows (column -> value), and whether   *)
(* pd.to_datetime turned the Period column into dates (a day of January    *)
(* 2024) or left it as raw strings (kept as 0: the text is never read).    *)
(* Cache Hit Ratio is a whole percent.                                     *)

NoneDf == [none |-> TRUE, columns |-> {}, rows |-> <<>>, dates |-> FALSE]

AllColumns == {"Period", "Visits", "Pages Served", "Cache Hits",
               "Cache Misses", "Cache Hit Ratio", "HTTP 4xx", "HTTP 5xx"}

Min(a, b) == IF a < b THEN a ELSE b
Max(a, b) == IF a > b THEN a ELSE b

\* rows[from:to] with Python's slice rules (negative positions count from
\* the end, positions outside the sequence are clipped)
SliceIndex(n, i) == IF i < 0 THEN Max(n + i, 0) ELSE Min(i, n)

ilocLastFive(rows, from, to) ==
    SubSeq(rows, SliceIndex(Len(rows), -5) + 1, SliceIndex(Len(rows), to))

iloc(rows, from, to) ==
    SubSeq(rows, SliceIndex(Len(rows), from) + 1, SliceIndex(Len(rows), to))

RECURSIVE SumCol(_, _)
SumCol(rows, col) ==
    IF rows = <<>> THEN 0 ELSE rows[1][col] + SumCol(Tail(rows), col)

\* Series.mean(), kept exact as sum and count
Mean(rows, col) == [sum |-> SumCol(rows, col), cnt |-> Len(rows)]

Column(rows, col) == [i \in 1..Len(rows) |-> rows[i][col]]

\* lines 204-212: the baseline and the prior periods shown with the alert
Baseline(rows) ==
    LET previous_days == iloc(rows, 0 - WindowBack, -1)
        all_but_last == iloc(rows, 0, -1)
        used == IF Len(previous_days) >= MinWindow
                THEN previous_days ELSE all_but_last
    IN  [avg_visits |-> Mean(used, "Visits"),
         prev_periods |->
             [i \in 1..Len(used) |-> strftime(used[i]["Period"])],
         prev_visits |-> Column(used, "Visits")]

----------------------------------------------------------------------------
(* The conditions of monitor_sites.                                        *)

\* line 193
Accepts(df) ==
    /\ ~df.none
    /\ "Visits" \in df.columns
    /\ Len(df.rows) > MinRows

\* line 235: avg_visits > 0 and recent_visits > avg_visits * (1 + t / 100)
SpikeConditionNotStrict(recent_visits, avg, t) ==
    /\ avg.sum > 0
    /\ recent_visits * avg.cnt * 100 >= avg.sum * (100 + t)

SpikeCondition(recent_visits, avg, t) ==
    /\ avg.sum > 0
    /\ recent_visits * avg.cnt * 100 > avg.sum * (100 + t)

\* line 247
HasErrorColumns(df) ==
    "HTTP 4xx" \in df.columns /\ "HTTP 5xx" \in df.columns

\* line 254
ErrorConditionBoth(recent_4xx, recent_5xx) ==
    recent_4xx > error_threshold_4xx /\ recent_5xx > error_threshold_5xx

ErrorCondition(recent_4xx, recent_5xx) ==
    recent_4xx > error_threshold_4xx \/ recent_5xx > error_threshold_5xx

\* lines 273-274: avg_ratio < 50
LowCache(df) ==
    LET avg_ratio == Mean(df.rows, "Cache Hit Ratio")
    IN  avg_ratio.sum < CacheThreshold * avg_ratio.cnt

\* lines 45-65: True only when the webhook is set and Slack answers 200
SlackResponses == {"no_webhook", "200", "500", "exception"}

send_slack_notification(resp) == resp = "200"

----------------------------------------------------------------------------
(* One iteration of the site loop (lines 187-317) on the dedup file        *)
(* `file`: the locals it computed, what it dispatched, what it left in the *)
(* file, and where it stopped.  resp1 and resp2 are Slack's answers to the *)
(* traffic-spike and the error-rate dispatch.  An iteration that raises    *)
(* keeps what it did before the raise.                                     *)

NoRow == [c \in {} |-> 0]

NoMean == [sum |-> 0, cnt |-> 0]

Skipped(file, site_name, df, t) ==
    [site |-> site_name, t |-> t, stage |-> "skipped",
     none |-> df.none, columns |-> df.columns, nrows |-> Len(df.rows),
     recent |-> NoRow, avg_visits |-> NoMean, low |-> FALSE,
     date |-> "", file |-> file,
     spikeMarked |-> FALSE, spikeSent |-> FALSE, spikeOk |-> FALSE,
     errBefore |-> FALSE,
     errChecked |-> FALSE, errMarked |-> FALSE, errSent |-> FALSE,
     errOk |-> FALSE, cacheSent |-> FALSE]

Iteration(file, site_name, df, t, resp1, resp2) ==
    IF ~Accepts(df) THEN Skipped(file, site_name, df, t)
    ELSE IF ~df.dates
    THEN \* line 196: a str has no strftime
         [Skipped(file, site_name, df, t) EXCEPT !.stage = "raised"]
    ELSE
    \* line 201 sends the trend chart message in every such iteration; it
    \* is no alert and leaves no state behind
    LET recent == df.rows[Len(df.rows)]
        recent_date == strftime(recent["Period"])
        base == Baseline(df.rows)
        \* lines 234-244
        spikeMarked ==
            already_alerted(file, site_name, "traffic_spike", recent_date)
        spikeSent ==
            ~spikeMarked /\ SpikeCondition(recent["Visits"], base.avg_visits, t)
        file1 == IF spikeSent
                 THEN mark_alerted(file, site_name, "traffic_spike", recent_date)
                 ELSE file
        \* lines 247-270
        errChecked == HasErrorColumns(df)
        errMarked ==
            errChecked /\ already_alerted(file1, site_name, "error_rate", recent_date)
        errSent ==
            /\ errChecked
            /\ ~errMarked
            /\ ErrorCondition(recent["HTTP 4xx"], recent["HTTP 5xx"])
        file2 == IF errSent
                 THEN mark_alerted(file1, site_name, "error_rate", recent_date)
                 ELSE file1
        \* lines 273-313; line 288 raises KeyError without Cache Misses
        low == LowCache(df)
        raises == low /\ "Cache Misses" \notin df.columns
    IN  [site |-> site_name, t |-> t,
         stage |-> IF raises THEN "raised" ELSE "done",
         none |-> FALSE, columns |-> df.columns, nrows |-> Len(df.rows),
         recent |-> recent, avg_visits |-> base.avg_visits, low |-> low,
         date |-> recent_date, file |-> file2,
         spikeMarked |-> spikeMarked, spikeSent |-> spikeSent,
         spikeOk |-> spikeSent /\ send_slack_notification(resp1),
         errBefore |->
             AlertKey(site_name, "error_rate", recent_date)
                 \in DOMAIN load_alert_log(file1),
         errChecked |-> errChecked, errMarked |-> errMarked,
         errSent |-> errSent,
         errOk |-> errSent /\ send_slack_notification(resp2),
         cacheSent |-> low /\ ~raises]

\* Slack answers only the dispatches that are made
Answers(called) == IF called THEN SlackResponses ELSE {"200"}

\* the alert dispatch attempts of an iteration, added to the counts
Bump(count, key) ==
    [k \in (DOMAIN count) \cup {key} |->
        IF k \in DOMAIN count
        THEN (IF k = key THEN count[k] + 1 ELSE count[k])
        ELSE 1]

Count(count, key) == IF key \in DOMAIN count THEN count[key] ELSE 0

Dispatches(count, r) ==
    LET c1 == IF r.spikeSent
              THEN Bump(count, <<r.site, "traffic_spike", r.date>>) ELSE count
        c2 == IF r.errSent
              THEN Bump(c1, <<r.site, "error_rate", r.date>>) ELSE c1
    IN  IF r.cacheSent
        THEN Bump(c2, <<r.site, "cache_efficiency", r.date>>) ELSE c2

----------------------------------------------------------------------------
(* Inputs of the runs: what the site listing, the configuration and the    *)
(* metrics source can return.                                              *)

Sites == {"a", "b"}

\* the days on which runs are made, counted from the first run
Days == {0, 1}

SiteListings == {<<>>, <<"a", "b">>}

Thresholds == {25, 50}

Row(cols, day, visits, ratio, h4, h5) ==
    [c \in cols |->
        CASE c = "Period" -> day
          [] c = "Visits" -> visits
          [] c = "Cache Hit Ratio" -> ratio
          [] c = "Cache Misses" -> 7
          [] c = "HTTP 4xx" -> h4
          [] c = "HTTP 5xx" -> h5
          [] OTHER -> 0]

\* n daily rows ending on day n + shift: `prior` visits on every day but
\* the latest, `latest` visits on the latest
Table(cols, n, shift, prior, latest, ratio, h4, h5) ==
    [none |-> FALSE, columns |-> cols, dates |-> TRUE,
     rows |-> [i \in 1..n |->
                 Row(cols, i + shift, IF i = n THEN latest ELSE prior,
                     ratio, h4, h5)]]

NoHttp == AllColumns \ {"HTTP 4xx", "HTTP 5xx"}

RowCount == MinRows + 1

\* a quiet day: no detector fires
Quiet(shift) == Table(AllColumns, RowCount, shift, 100, 125, 50, 100, 10)

\* a table whose dates did not parse: Period stays a column of strings
RawPeriodTable ==
    [Quiet(0) EXCEPT
        !.dates = FALSE,
        !.rows = [i \in 1..RowCount |-> [@[i] EXCEPT !["Period"] = 0]]]

VisitPairs == {<<0, 126>>, <<100, 126>>, <<100, 151>>}

ErrorPairs == {<<101, 10>>, <<100, 11>>}

\* what the metrics source can return for a site on the day `shift`
MetricsTables(shift) ==
    {NoneDf, RawPeriodTable, Quiet(shift),
     Table(AllColumns, MinRows, shift, 100, 151, 40, 101, 11),
     Table(AllColumns \ {"Visits"}, RowCount, shift, 100, 151, 40, 101, 11)}
    \cup {Table(AllColumns, RowCount, shift, v[1], v[2], 50, 100, 10) :
            v \in VisitPairs}
    \cup {Table(AllColumns, RowCount, shift, 100, 125, 50, e[1], e[2]) :
            e \in ErrorPairs}
    \cup {Table(AllColumns \ {"HTTP 5xx"}, RowCount, shift, 100, 125, 50, 101, 11)}
    \cup {Table(cols, RowCount, shift, 100, 151, 40, 101, 11) :
            cols \in {AllColumns, NoHttp, AllColumns \ {"Cache Misses"}}}
    \cup {Table(cols, RowCount, shift, 100, 125, ratio, 100, 10) :
            ratio \in {40, 50},
            cols \in {AllColumns, AllColumns \ {"Cache Misses"}}}

MetricsSource == [d \in Days |-> MetricsTables(d)]

----------------------------------------------------------------------------
(* Runs of monitor_sites, one at a time.                                   *)

NoIteration == Skipped(MissingFile, "", NoneDf, 0)

Init ==
    /\ alert_log_file = MissingFile
    /\ pc = "idle"
    /\ runs = 0
    /\ threshold_percent = 0
    /\ queue = <<>>
    /\ listing = <<>>
    /\ visited = {}
    /\ outcome = "none"
    /\ errorMsgs = 0
    /\ sent = [k \in {} |-> 0]
    /\ last = NoIteration
    /\ today = 0
    /\ dedupCalls = 0
    /\ baselineCalc = 0
    /\ parseCall = 0
    /\ proc = 0
    /\ raceHist = 0

\* lines 320-324: the handler sends one message and the run ends
HandlerSilent(n) == n

Handler(n) == n + 1

\* lines 178-185: load_config and get_sites
StartRun ==
    /\ pc = "idle"
    /\ runs < MaxRuns
    /\ runs' = runs + 1
    /\ visited' = {}
    /\ last' = NoIteration
    /\ today' \in {d \in Days : d >= today /\ (runs = 0 => d = today)}
    /\ UNCHANGED <<alert_log_file, sent>>
    /\ UNCHANGED <<dedupCalls, baselineCalc, parseCall, proc, raceHist>>
    /\ \/ \E t \in Thresholds, rows \in SiteListings :
            /\ threshold_percent' = t
            /\ listing' = rows
            /\ queue' = rows
            /\ pc' = "running"
            /\ outcome' = "none"
            /\ errorMsgs' = 0
       \/ \* load_config raises (no sites.yaml, bad YAML)
          /\ threshold_percent' = 0
          /\ listing' = <<>>
          /\ queue' = <<>>
          /\ pc' = "idle"
          /\ outcome' = "error"
          /\ errorMsgs' = Handler(0)

\* lines 186-317: one iteration of the loop
EvalSite ==
    /\ pc = "running"
    /\ queue # <<>>
    /\ \E df \in MetricsSource[today] :
         \E w \in {Iteration(alert_log_file, Head(queue), df,
                             threshold_percent, "200", "200")} :
         \E resp1 \in Answers(w.spikeSent), resp2 \in Answers(w.errSent) :
         \E r \in {[w EXCEPT !.spikeOk = @ /\ send_slack_notification(resp1),
                             !.errOk = @ /\ send_slack_notification(resp2)]} :
             /\ last' = r
             /\ alert_log_file' = r.file
             /\ sent' = Dispatches(sent, r)
             /\ visited' = visited \cup {Head(queue)}
             /\ IF r.stage = "raised"
                THEN /\ pc' = "idle"
                     /\ queue' = <<>>
                     /\ outcome' = "error"
                     /\ errorMsgs' = Handler(errorMsgs)
                ELSE /\ pc' = "running"
                     /\ queue' = Tail(queue)
                     /\ UNCHANGED <<outcome, errorMsgs>>
    /\ UNCHANGED <<runs, threshold_percent, listing, today>>
    /\ UNCHANGED <<dedupCalls, baselineCalc, parseCall, proc, raceHist>>

\* lines 318-319
FinishRun ==
    /\ pc = "running"
    /\ queue = <<>>
    /\ pc' = "idle"
    /\ outcome' = "finished"
    /\ UNCHANGED <<alert_log_file, runs, threshold_percent, queue, listing,
                   visited, errorMsgs, sent, last, today>>
    /\ UNCHANGED <<dedupCalls, baselineCalc, parseCall, proc, raceHist>>

Next == StartRun \/ EvalSite \/ FinishRun

Spec == Init /\ [][Next]_vars

----------------------------------------------------------------------------
(* Properties of the runs made one at a time (Spec).                       *)

\* the last iteration got past line 197 and ran the detectors
Evaluated == last.stage # "skipped" /\ last.date # ""

\* C1: for a site, an alert type (traffic spike, error rate, low cache
\* efficiency) and a date, the notification is dispatched at most once,
\* however many runs see the same latest record.
C1_DispatchedAtMostOnce ==
    \A k \in DOMAIN sent : sent[k] <= 1

\* C2: a traffic-spike or error-rate dispatch that Slack did not accept
\* leaves the dedup entry of that site, type and date unmarked.
C2_FailedDispatchNotMarked ==
    /\ (last.spikeSent /\ ~last.spikeOk) =>
          ~already_alerted(alert_log_file, last.site, "traffic_spike", last.date)
    /\ (last.errSent /\ ~last.errOk) =>
          ~already_alerted(alert_log_file, last.site, "error_rate", last.date)

\* C4: with the traffic-spike key of the latest date unmarked, the alert is
\* dispatched iff the baseline b is positive and the latest visits exceed
\* b * (1 + threshold/100); with b <= 0 nothing is dispatched or marked.
C4_SpikeIffOverThreshold ==
    (Evaluated /\ ~last.spikeMarked) =>
        LET b == last.avg_visits
            recent_visits == last.recent["Visits"]
            over == recent_visits * b.cnt * 100 > b.sum * (100 + last.t)
            marked == AlertKey(last.site, "traffic_spike", last.date)
                          \in DOMAIN load_alert_log(alert_log_file)
        IN  /\ b.cnt > 0
            /\ last.spikeSent <=> (b.sum > 0 /\ over)
            /\ b.sum <= 0 => (~last.spikeSent /\ ~marked)

C4_Witness ==
    /\ Evaluated
    /\ ~last.spikeMarked
    /\ last.spikeSent
    /\ last.avg_visits.sum > 0

\* C5: a failure confined to one site never aborts the batch: when a run
\* has ended, every site of its listing has had its loop iteration.
C5_LaterSitesStillEvaluated ==
    (pc = "idle") => \A i \in 1..Len(listing) : listing[i] \in visited

\* where a run stands and what it has handed to Slack as error messages
RunLedger ==
    /\ (pc = "running") =>
          /\ outcome = "none"
          /\ errorMsgs = 0
          /\ Len(queue) + Cardinality(visited) = Len(listing)
          /\ (queue # <<>> => MetricsSource[today] # {})
          /\ (queue = <<>> => ENABLED FinishRun)
    /\ (outcome = "error") => (pc = "idle" /\ errorMsgs = 1)
    /\ (outcome = "finished") =>
          (pc = "idle" /\ errorMsgs = 0 /\ Cardinality(visited) = Len(listing))
    /\ (pc = "idle" /\ runs > 0) => outcome \in {"error", "finished"}

\* one step of a run: the loop goes on only with a shorter queue, and an
\* error message is handed to Slack only by the step that ends the run
RunStep ==
    /\ (pc = "running" /\ pc' = "running") => Len(queue') < Len(queue)
    /\ (pc = "running" /\ pc' = "idle") =>
          /\ runs' = runs
          /\ errorMsgs' = (IF outcome' = "error" THEN 1 ELSE 0)
    /\ (pc = "idle" /\ pc' = "idle") => outcome' = "error"
    /\ (pc = "idle") => runs' = runs + 1

C9_ErrorRateIffOverThreshold ==
    Evaluated =>
        LET present == {"HTTP 4xx", "HTTP 5xx"} \subseteq last.columns
            marked == AlertKey(last.site, "error_rate", last.date)
                          \in DOMAIN load_alert_log(alert_log_file)
        IN  /\ ~last.errBefore =>
                (last.errSent <=>
                    /\ present
                    /\ \/ last.recent["HTTP 4xx"] > 100
                       \/ last.recent["HTTP 5xx"] > 10)
            /\ ~present =>
                /\ ~last.errSent
                /\ marked <=> last.errBefore
                /\ last.stage = "raised" =>
                      (last.low /\ "Cache Misses" \notin last.columns)
                /\ (~last.spikeMarked /\ last.recent["Visits"] > 150) =>
                      last.spikeSent
                /\ last.cacheSent <=>
                      (last.low /\ "Cache Misses" \in last.columns)

C9_Witness ==
    /\ Evaluated
    /\ ~last.errBefore
    /\ last.errSent
    /\ last.recent["HTTP 4xx"] <= 100
    /\ last.recent["HTTP 5xx"] > 10

----------------------------------------------------------------------------
(* The dedup store on its own (SpecStore): calls of mark_alerted and       *)
(* already_alerted, one at a time, on a document that starts missing or    *)
(* empty.                                                                  *)

RunsIdle ==
    /\ pc = "idle"
    /\ runs = 0
    /\ threshold_percent = 0
    /\ queue = <<>>
    /\ listing = <<>>
    /\ visited = {}
    /\ outcome = "none"
    /\ errorMsgs = 0
    /\ last = NoIteration
    /\ today = 0

\* the arguments monitor_sites passes: a site name (any text), one of its
\* two alert types, a date as strftime writes it
StoreSites == {"a", "b", "a:error_rate"}

AlertTypes == {"traffic_spike", "error_rate"}

StoreDates == {strftime(RowCount + d) : d \in Days}

Triples == StoreSites \X AlertTypes \X StoreDates

NoCall == [op |-> "none", args |-> <<"", "", "">>, answer |-> FALSE,
           before |-> MissingFile, marked |-> {}, calls |-> 0]

InitStore ==
    /\ alert_log_file \in {MissingFile, save_alert_log(EmptyLog)}
    /\ dedupCalls = NoCall
    /\ RunsIdle
    /\ sent = [k \in {} |-> 0]
    /\ baselineCalc = 0
    /\ parseCall = 0
    /\ proc = 0
    /\ raceHist = 0

\* lines 146-150
MarkAlerted ==
    /\ dedupCalls.calls < MaxCalls
    /\ \E tr \in Triples :
         /\ alert_log_file' = mark_alerted(alert_log_file, tr[1], tr[2], tr[3])
         /\ dedupCalls' = [op |-> "mark", args |-> tr, answer |-> FALSE,
                           before |-> alert_log_file,
                           marked |-> dedupCalls.marked \cup {tr},
                           calls |-> dedupCalls.calls + 1]
    /\ UNCHANGED <<runVars, sent, baselineCalc, parseCall, proc, raceHist>>

\* lines 141-144
AlreadyAlerted ==
    /\ \E tr \in Triples :
         dedupCalls' = [dedupCalls EXCEPT
                          !.op = "ask", !.args = tr,
                          !.answer = already_alerted(alert_log_file,
                                                     tr[1], tr[2], tr[3]),
                          !.before = alert_log_file]
    /\ UNCHANGED <<alert_log_file, runVars, sent, baselineCalc, parseCall,
                   proc, raceHist>>

NextStore == MarkAlerted \/ AlreadyAlerted

SpecStore == InitStore /\ [][NextStore]_vars

\* C3: already_alerted answers true exactly for the triples marked earlier;
\* marking a triple again changes nothing; a marked entry is never removed.
C3_AlertedIffMarked ==
    /\ dedupCalls.op = "ask" =>
          (dedupCalls.answer <=> dedupCalls.args \in dedupCalls.marked)
    /\ (dedupCalls.op = "mark" /\ dedupCalls.before.exists) =>
          LET old == dedupCalls.before.data
              new == alert_log_file.data
          IN  /\ DOMAIN old \subseteq DOMAIN new
              /\ \A k \in DOMAIN old : new[k] = old[k]
              /\ Cardinality(DOMAIN new) <= Cardinality(DOMAIN old) + 1
              /\ Cardinality(DOMAIN new) = Cardinality(dedupCalls.marked)
    /\ \A tr \in dedupCalls.marked :
          already_alerted(alert_log_file, tr[1], tr[2], tr[3])

C3_Witness ==
    /\ dedupCalls.op = "ask"
    /\ dedupCalls.calls = MaxCalls
    /\ Cardinality(dedupCalls.marked) < MaxCalls
    /\ dedupCalls.answer
    /\ \E tr \in Triples :
          /\ tr \notin dedupCalls.marked
          /\ tr[1] = dedupCalls.args[1]
          /\ tr[3] = dedupCalls.args[3]

----------------------------------------------------------------------------
(* The baseline on its own (SpecBaseline): frames of more than MinRows     *)
(* daily rows, as line 193 lets through, and the baseline of lines         *)
(* 204-212.                                                                *)

RECURSIVE VisitSeqs(_)
VisitSeqs(n) ==
    IF n = 0 THEN {<<>>}
    ELSE {Append(q, v) : q \in VisitSeqs(n - 1), v \in {0, 1}}

BaselineFrames ==
    {[i \in 1..Len(q) |-> [Period |-> i, Visits |-> q[i]]] :
        q \in UNION {VisitSeqs(n) : n \in (MinRows + 1)..MaxRows}}

NoBaseline == [avg_visits |-> NoMean, prev_periods |-> <<>>,
               prev_visits |-> <<>>]

InitBaseline ==
    /\ baselineCalc \in
          {[rows |-> f, done |-> FALSE, result |-> NoBaseline] :
              f \in BaselineFrames}
    /\ alert_log_file = MissingFile
    /\ RunsIdle
    /\ sent = [k \in {} |-> 0]
    /\ dedupCalls = 0
    /\ parseCall = 0
    /\ proc = 0
    /\ raceHist = 0

ComputeBaseline ==
    /\ ~baselineCalc.done
    /\ baselineCalc' = [baselineCalc EXCEPT
                          !.done = TRUE, !.result = Baseline(baselineCalc.rows)]
    /\ UNCHANGED <<alert_log_file, runVars, sent, dedupCalls, parseCall,
                   proc, raceHist>>

NextBaseline == ComputeBaseline

SpecBaseline == InitBaseline /\ [][NextBaseline]_vars

\* C7: for n > 4 records the baseline is the mean of the visits of the
\* min(5, n-1) records just before the most recent one, the prior periods
\* shown are exactly those records, and the most recent record is not among
\* them.
C7_BaselineWindow ==
    baselineCalc.done =>
        LET rows == baselineCalc.rows
            n == Len(rows)
            k == IF n - 1 < 5 THEN n - 1 ELSE 5
            res == baselineCalc.result
            total == Cardinality({i \in (n - k)..(n - 1) : rows[i].Visits = 1})
        IN  /\ res.avg_visits.cnt = k
            /\ res.avg_visits.sum = total
            /\ Len(res.prev_periods) = k
            /\ Len(res.prev_visits) = k
            /\ \A j \in 1..k :
                  /\ res.prev_periods[j] = strftime(rows[n - k - 1 + j].Period)
                  /\ res.prev_visits[j] = rows[n - k - 1 + j].Visits
            /\ \A j \in 1..k : res.prev_periods[j] # strftime(rows[n].Period)

C7_Witness ==
    /\ baselineCalc.done
    /\ Len(baselineCalc.rows) = MinRows + 1
    /\ baselineCalc.result.avg_visits.cnt = 4
    /\ baselineCalc.result.avg_visits.sum = 3
    /\ baselineCalc.rows[1].Visits = 0
    /\ baselineCalc.rows[5].Visits = 1

----------------------------------------------------------------------------
(* The table parser (lines 100-129).  A text is a sequence of lines and a  *)
(* line a sequence of tokens: a word, one blank " ", or a run of two or    *)
(* more blanks "  " (two whitespace tokens are never adjacent).            *)

IsSpace(tok) == tok \in {" ", "  "}

\* line.strip()
RECURSIVE LStrip(_)
LStrip(line) ==
    IF line # <<>> /\ IsSpace(Head(line)) THEN LStrip(Tail(line)) ELSE line

RECURSIVE RStrip(_)
RStrip(line) ==
    IF line # <<>> /\ IsSpace(line[Len(line)])
    THEN RStrip(SubSeq(line, 1, Len(line) - 1)) ELSE line

Strip(line) == RStrip(LStrip(line))

\* re.split(r'\s{2,}', text): the fields between the runs of blanks, each
\* field the text of its tokens
RECURSIVE SplitFrom(_, _, _)
SplitFrom(line, field, fields) ==
    IF line = <<>> THEN Append(fields, field)
    ELSE IF Head(line) = "  "
         THEN SplitFrom(Tail(line), "", Append(fields, field))
         ELSE SplitFrom(Tail(line), field \o Head(line), fields)

Split(line) == SplitFrom(line, "", <<>>)

\* `phrase in line`, for a phrase of whole tokens
HasText(line, phrase) ==
    \E i \in 1..Len(line) :
        /\ i + Len(phrase) - 1 <= Len(line)
        /\ SubSeq(line, i, i + Len(phrase) - 1) = phrase

\* line 103
IsHeader(line) ==
    /\ HasText(line, <<"Period">>)
    /\ HasText(line, <<"Cache", " ", "Hit", " ", "Ratio">>)

HeaderIdx(lines) ==
    IF \E i \in 1..Len(lines) : IsHeader(lines[i])
    THEN CHOOSE i \in 1..Len(lines) :
            /\ IsHeader(lines[i])
            /\ \A j \in 1..(i - 1) : ~IsHeader(lines[j])
    ELSE 0

\* line 109: not line.strip() or line.strip().startswith("-")
DashWords == {"-----", "-"}

Ignored(line) ==
    \/ Strip(line) = <<>>
    \/ Head(Strip(line)) \in DashWords

\* lines 108-113
DataLinesFromNext(lines, header_idx) ==
    SubSeq(lines, header_idx + 1, Len(lines))

DataLines(lines, header_idx) ==
    SubSeq(lines, header_idx + 2, Len(lines))

Keeps(line, header) ==
    /\ ~Ignored(line)
    /\ Len(Split(Strip(line))) = Len(header)

\* str.replace(",", ""), str.replace("%", "") on the cells of the model
RemoveCommas(cell) == IF cell = "1,234" THEN "1234" ELSE cell

RemovePercent(cell) ==
    CASE cell = "40%" -> "40"
      [] cell = "50%" -> "50"
      [] cell = "70%" -> "70"
      [] OTHER -> cell

\* int(text) and float(text): the texts that are numbers, any other raises
NumberText ==
    ("1234" :> 1234) @@ ("100" :> 100) @@ ("126" :> 126) @@ ("7" :> 7)
    @@ ("11" :> 11) @@ ("101" :> 101) @@ ("40" :> 40) @@ ("50" :> 50)
    @@ ("70" :> 70)

\* pd.to_datetime(text, format="%Y-%m-%d"): the texts that are dates
DateText ==
    ("2024-01-05" :> 5) @@ ("2024-01-06" :> 6) @@ ("2024-01-07" :> 7)

IntColumns == {"Visits", "Pages Served", "Cache Hits", "Cache Misses",
               "HTTP 4xx", "HTTP 5xx"}

Range(f) == {f[i] : i \in DOMAIN f}

CellOf(header, row, col) ==
    row[CHOOSE i \in 1..Len(header) : header[i] = col]

\* lines 117-120: does every cell of the numeric columns convert
Coerces(header, data) ==
    /\ "Cache Hit Ratio" \in Range(header)
    /\ \A r \in 1..Len(data) : \A c \in 1..Len(header) :
          /\ header[c] \in IntColumns =>
                RemoveCommas(data[r][c]) \in DOMAIN NumberText
          /\ header[c] = "Cache Hit Ratio" =>
                RemovePercent(data[r][c]) \in DOMAIN NumberText

\* lines 121-124: the Period column becomes dates only as a whole
DatesParse(header, data) ==
    /\ "Period" \in Range(header)
    /\ \A r \in 1..Len(data) : CellOf(header, data[r], "Period") \in DOMAIN DateText

TypedRow(header, row, dates) ==
    [col \in Range(header) |->
        LET cell == CellOf(header, row, col)
        IN  CASE col \in IntColumns -> NumberText[RemoveCommas(cell)]
              [] col = "Cache Hit Ratio" -> NumberText[RemovePercent(cell)]
              [] col = "Period" /\ dates -> DateText[cell]
              [] OTHER -> 0]

parse_table_to_df(output) ==
    LET header_idx == HeaderIdx(output)
    IN  IF header_idx = 0 THEN NoneDf
        ELSE
        LET header == Split(Strip(output[header_idx]))
            kept == SelectSeq(DataLines(output, header_idx),
                              LAMBDA line : Keeps(line, header))
            data == [i \in 1..Len(kept) |-> Split(Strip(kept[i]))]
        IN  IF data = <<>> THEN NoneDf
            ELSE IF ~Coerces(header, data) THEN NoneDf
            ELSE [none |-> FALSE, columns |-> Range(header),
                  dates |-> DatesParse(header, data),
                  rows |-> [i \in 1..Len(data) |->
                              TypedRow(header, data[i],
                                       DatesParse(header, data))]]

----------------------------------------------------------------------------
(* The parser on its own (SpecParse): texts the metrics command can print. *)

Header3 == <<"Period", "  ", "Visits", "  ", "Cache", " ", "Hit", " ", "Ratio">>

Header5 == Header3 \o <<"  ", "HTTP", " ", "4xx", "  ", "HTTP", " ", "5xx">>

Notice == <<"Fetching", " ", "metrics">>

Rule == <<"-----", "  ", "-----">>

GoodRow == <<" ", "2024-01-05", "  ", "1,234", "  ", "40%">>

DataLineKinds ==
    {GoodRow,
     <<"2024-01-06", "  ", "100", "  ", "50%", "  ">>,
     <<"2024-01-07", "  ", "126", "  ", "70%", "  ", "101", "  ", "11">>,
     <<"2024-01-06", "  ", "100">>,
     <<"2024-01-06", " ", "100", "  ", "50%">>,
     <<>>,
     <<"  ">>,
     Rule,
     <<"2024-01-05", "  ", "n/a", "  ", "40%">>,
     <<"Jan", " ", "5", "  ", "100", "  ", "40%">>}

RECURSIVE LineSeqs(_)
LineSeqs(n) ==
    IF n = 0 THEN {<<>>}
    ELSE LineSeqs(n - 1)
         \cup {Append(q, l) : q \in {x \in LineSeqs(n - 1) : Len(x) = n - 1},
                              l \in DataLineKinds}

MetricsTexts ==
    {pre \o <<h>> \o rest :
        pre \in {<<>>, <<Notice>>},
        h \in {Header3, Header5, Notice},
        rest \in {<<>>} \cup {<<after>> \o d : after \in {Rule, GoodRow},
                                              d \in LineSeqs(MaxDataLines)}}

InitParse ==
    /\ parseCall \in {[output |-> text, done |-> FALSE, result |-> NoneDf] :
                        text \in MetricsTexts}
    /\ alert_log_file = MissingFile
    /\ RunsIdle
    /\ sent = [k \in {} |-> 0]
    /\ dedupCalls = 0
    /\ baselineCalc = 0
    /\ proc = 0
    /\ raceHist = 0

Parse ==
    /\ ~parseCall.done
    /\ parseCall' = [parseCall EXCEPT
                       !.done = TRUE,
                       !.result = parse_table_to_df(parseCall.output)]
    /\ UNCHANGED <<alert_log_file, runVars, sent, dedupCalls, baselineCalc,
                   proc, raceHist>>

NextParse == Parse

SpecParse == InitParse /\ [][NextParse]_vars

\* the lines of the parsed text that the claim counts as data rows with the
\* header's field count, and their fields
ParsedHeader == Split(Strip(parseCall.output[HeaderIdx(parseCall.output)]))

Fields(i) == Split(Strip(parseCall.output[i]))

DataRowAt(i) ==
    /\ i > HeaderIdx(parseCall.output) + 1
    /\ Strip(parseCall.output[i]) # <<>>
    /\ Head(Strip(parseCall.output[i])) \notin DashWords

Matching ==
    {i \in 1..Len(parseCall.output) :
        DataRowAt(i) /\ Len(Fields(i)) = Len(ParsedHeader)}

NthMatching(j) ==
    CHOOSE i \in Matching : Cardinality({m \in Matching : m < i}) = j - 1

MatchingConvert ==
    \A i \in Matching : \A c \in 1..Len(ParsedHeader) :
        /\ ParsedHeader[c] \in IntColumns =>
              RemoveCommas(Fields(i)[c]) \in DOMAIN NumberText
        /\ ParsedHeader[c] = "Cache Hit Ratio" =>
              RemovePercent(Fields(i)[c]) \in DOMAIN NumberText

ExactlyMatching ==
    /\ ~parseCall.result.none
    /\ Len(parseCall.result.rows) = Cardinality(Matching)
    /\ \A j \in 1..Cardinality(Matching) :
          /\ parseCall.result.rows[j]["Visits"]
                = NumberText[RemoveCommas(Fields(NthMatching(j))[2])]
          /\ parseCall.result.rows[j]["Cache Hit Ratio"]
                = NumberText[RemovePercent(Fields(NthMatching(j))[3])]
          /\ parseCall.result.dates =>
                parseCall.result.rows[j]["Period"]
                    = DateText[Fields(NthMatching(j))[1]]

\* C8 as stated: whenever there are data rows with the header's field
\* count, the parse returns exactly those rows, in their order.
C8_ReturnsMatchingRows ==
    (parseCall.done /\ HeaderIdx(parseCall.output) # 0 /\ Matching # {})
        => ExactlyMatching

\* C8 as amended: the parse returns exactly the data rows with the header's
\* field count, in their order, when there is at least one and the numeric
\* cells of all of them convert; otherwise it returns None.  A row of
\* another field count is dropped and does not make the parse fail.
C8_ReturnsMatchingRowsIfNumeric ==
    parseCall.done =>
        IF HeaderIdx(parseCall.output) # 0 /\ Matching # {} /\ MatchingConvert
        THEN ExactlyMatching
        ELSE parseCall.result = NoneDf

C8_Witness ==
    /\ parseCall.done
    /\ ~parseCall.result.none
    /\ Len(parseCall.result.rows) = 1
    /\ parseCall.result.rows[1]["Visits"] = 1234
    /\ \E i \in 1..Len(parseCall.output) :
          /\ DataRowAt(i)
          /\ Len(Fields(i)) # Len(ParsedHeader)
          /\ i < NthMatching(1)

----------------------------------------------------------------------------
(* Two runs of monitor_sites that may overlap (SpecRace).  Each run        *)
(* evaluates site "a" with the default threshold; every read and every     *)
(* write of alert_log.json is a step of its own: already_alerted reads the *)
(* file once, mark_alerted loads it (line 147) and later saves the changed *)
(* copy (line 150).                                                        *)

RaceProcs == {1, 2}

RaceSite == "a"

RaceTables ==
    {Quiet(0),
     Table(AllColumns, RowCount, 0, 100, 126, 50, 100, 10),
     Table(AllColumns, RowCount, 0, 100, 126, 40, 101, 11)}

IdleProc == [pc |-> "idle", df |-> NoneDf, log |-> EmptyLog]

Active(p) == proc[p].pc \notin {"idle", "done"}

RaceDate(p) == strftime(proc[p].df.rows[Len(proc[p].df.rows)]["Period"])

Recent(p) == proc[p].df.rows[Len(proc[p].df.rows)]

InitRace ==
    /\ proc = [p \in RaceProcs |-> IdleProc]
    /\ raceHist = [overlapped |-> FALSE, marked |-> {}]
    /\ alert_log_file = MissingFile
    /\ sent = [k \in {} |-> 0]
    /\ RunsIdle
    /\ dedupCalls = 0
    /\ baselineCalc = 0
    /\ parseCall = 0

Goto(p, label) == proc' = [proc EXCEPT ![p].pc = label]

RaceRest == <<runVars, dedupCalls, baselineCalc, parseCall>>

\* lines 177-190: the run starts
RaceStart(p) ==
    /\ proc[p].pc = "idle"
    /\ Goto(p, "fetch")
    /\ raceHist' = [raceHist EXCEPT
                      !.overlapped = @ \/ \E q \in RaceProcs \ {p} : Active(q)]
    /\ UNCHANGED <<alert_log_file, sent, RaceRest>>

\* lines 191-201: the metrics are fetched and parsed
RaceFetch(p) ==
    /\ proc[p].pc = "fetch"
    /\ \E df \in RaceTables \cup {NoneDf} :
         proc' = [proc EXCEPT
                    ![p].df = df,
                    ![p].pc = IF Accepts(df) THEN "spike_check" ELSE "done"]
    /\ UNCHANGED <<alert_log_file, sent, raceHist, RaceRest>>

\* lines 234-235
RaceSpikeCheck(p) ==
    /\ proc[p].pc = "spike_check"
    /\ IF /\ ~already_alerted(alert_log_file, RaceSite, "traffic_spike", RaceDate(p))
          /\ SpikeCondition(Recent(p)["Visits"],
                            Baseline(proc[p].df.rows).avg_visits,
                            DefaultThreshold)
       THEN Goto(p, "spike_send")
       ELSE Goto(p, "error_check")
    /\ UNCHANGED <<alert_log_file, sent, raceHist, RaceRest>>

\* lines 247-254
RaceErrorCheck(p) ==
    /\ proc[p].pc = "error_check"
    /\ IF /\ HasErrorColumns(proc[p].df)
          /\ ~already_alerted(alert_log_file, RaceSite, "error_rate", RaceDate(p))
          /\ ErrorCondition(Recent(p)["HTTP 4xx"], Recent(p)["HTTP 5xx"])
       THEN Goto(p, "error_send")
       ELSE Goto(p, "cache")
    /\ UNCHANGED <<alert_log_file, sent, raceHist, RaceRest>>

\* lines 238 and 265: the dispatch
RaceSend(p, alert_type, here, next) ==
    /\ proc[p].pc = here
    /\ sent' = Bump(sent, <<RaceSite, alert_type, RaceDate(p)>>)
    /\ Goto(p, next)
    /\ UNCHANGED <<alert_log_file, raceHist, RaceRest>>

\* line 147, inside mark_alerted
RaceLoad(p, here, next) ==
    /\ proc[p].pc = here
    /\ proc' = [proc EXCEPT ![p].log = load_alert_log(alert_log_file),
                            ![p].pc = next]
    /\ UNCHANGED <<alert_log_file, sent, raceHist, RaceRest>>

\* lines 148-150, inside mark_alerted
RaceSave(p, alert_type, here, next) ==
    /\ proc[p].pc = here
    /\ alert_log_file' =
          save_alert_log(SetKey(proc[p].log,
                                AlertKey(RaceSite, alert_type, RaceDate(p))))
    /\ raceHist' = [raceHist EXCEPT
                      !.marked = @ \cup {AlertKey(RaceSite, alert_type, RaceDate(p))}]
    /\ proc' = [proc EXCEPT ![p].log = EmptyLog, ![p].pc = next]
    /\ UNCHANGED <<sent, RaceRest>>

\* lines 273-319: the cache detector, then the run ends
RaceCache(p) ==
    /\ proc[p].pc = "cache"
    /\ sent' = IF LowCache(proc[p].df)
               THEN Bump(sent, <<RaceSite, "cache_efficiency", RaceDate(p)>>)
               ELSE sent
    /\ proc' = [proc EXCEPT ![p].df = NoneDf, ![p].pc = "done"]
    /\ UNCHANGED <<alert_log_file, raceHist, RaceRest>>

RaceSpikeSend(p) == RaceSend(p, "traffic_spike", "spike_send", "spike_load")
RaceSpikeLoad(p) == RaceLoad(p, "spike_load", "spike_save")
RaceSpikeSave(p) == RaceSave(p, "traffic_spike", "spike_save", "error_check")
RaceErrorSend(p) == RaceSend(p, "error_rate", "error_send", "error_load")
RaceErrorLoad(p) == RaceLoad(p, "error_load", "error_save")
RaceErrorSave(p) == RaceSave(p, "error_rate", "error_save", "cache")

NextRace ==
    \E p \in RaceProcs :
        \/ RaceStart(p)
        \/ RaceFetch(p)
        \/ RaceSpikeCheck(p)
        \/ RaceSpikeSend(p)
        \/ RaceSpikeLoad(p)
        \/ RaceSpikeSave(p)
        \/ RaceErrorCheck(p)
        \/ RaceErrorSend(p)
        \/ RaceErrorLoad(p)
        \/ RaceErrorSave(p)
        \/ RaceCache(p)

SpecRace == InitRace /\ [][NextRace]_vars

DedupTypes == {"traffic_spike", "error_rate"}

DispatchedTwice ==
    \E k \in DOMAIN sent : k[2] \in DedupTypes /\ sent[k] > 1

MarkLost ==
    \E k \in raceHist.marked : k \notin DOMAIN load_alert_log(alert_log_file)

\* C10: as long as the two runs have not overlapped, no marked key is
\* missing from the document and no traffic-spike or error-rate alert has
\* been dispatched twice for a key; overlapping runs can do both.
C10_SafeWithoutOverlap ==
    ~raceHist.overlapped => (~DispatchedTwice /\ ~MarkLost)

C10_Witness ==
    /\ raceHist.overlapped
    /\ \A p \in RaceProcs : proc[p].pc = "done"
    /\ DispatchedTwice
    /\ MarkLost

====
